---------------------------- MODULE Spec2Model ----------------------------
(***************************************************************************)
(* A model of the projective-geometry threshold scheme of                  *)
(* t_threshold_encrypt.py and t_threshold_decrypt.py.                      *)
(*                                                                         *)
(* A point of PG(dimension, order) is held as its position (from 1) in     *)
(* projective_space.rational_points(); its coordinates are the tuple Sage  *)
(* normalises it to (the last nonzero coordinate is 1).  Python lists are  *)
(* sequences, Python sets are sets.  Every random draw of the program      *)
(* (r.randint, r.choice, r.shuffle) is a nondeterministic choice.          *)
(***************************************************************************)
EXTENDS Integers, Sequences, FiniteSets, TLC

(***************************************************************************)
(* Bounds of the model.                                                    *)
(***************************************************************************)
\* dimensions 1..MaxDim and field orders 1..MaxOrder are offered, the valid
\* ones as far as the space has at most MaxPoints points
MaxDim == 4
MaxOrder == 3
MaxPoints == 40
\* an encryption in a space with more points than FullPoints is followed on
\* the first Fan outcomes of every random draw (r.randint, r.choice) and on
\* the first ShuffleFan points for every position of r.shuffle only; in a
\* smaller space on every outcome
FullPoints == 13
Fan == 2
ShuffleFan == 1
\* recursive retries of get_secret_splitter the model follows
MaxAttempts == 2
\* SpecDecrypt: the longest list of shares given, and the points the two
\* points spanning the given secret line are taken from
MaxGiven == 2
LineFan == 3
\* SpecClosure: the longest list given to reconstruct_hyperplane; its points
\* are any points of a space of at most ClosurePoints points
MaxList == 3
ClosurePoints == 15

(***************************************************************************)
(* Sequences as Python lists.                                              *)
(***************************************************************************)
Range(s) == {s[i] : i \in 1..Len(s)}

In(x, s) == \E i \in 1..Len(s) : s[i] = x

Min(a, b) == IF a < b THEN a ELSE b

Max(a, b) == IF a > b THEN a ELSE b

RECURSIVE TabulateFrom(_, _, _)
\* the list f(lo), ..., f(hi)
TabulateFrom(f(_), lo, hi) ==
    IF lo > hi THEN <<>>
    ELSE IF lo = hi THEN <<f(lo)>>
    ELSE LET mid == (lo + hi) \div 2
         IN  TabulateFrom(f, lo, mid) \o TabulateFrom(f, mid+1, hi)

\* the list f(1), ..., f(n)
Tabulate(f(_), n) == TabulateFrom(f, 1, n)

\* the list without its k-th element
DropAt(s, k) == SubSeq(s, 1, k-1) \o SubSeq(s, k+1, Len(s))

\* list.remove(x): drops the first occurrence of x
RemoveFirst(s, x) ==
    IF ~In(x, s) THEN s
    ELSE DropAt(s, CHOOSE i \in 1..Len(s) : s[i] = x /\ \A j \in 1..(i-1) : s[j] # x)

\* append x unless the list has it
AppendNew(s, x) == IF In(x, s) THEN s ELSE Append(s, x)

(***************************************************************************)
(* The prime field GF(q) and the coordinates of points.                    *)
(***************************************************************************)
is_prime(n) == n > 1 /\ \A k \in 2..(n-1) : n % k # 0

RECURSIVE Pow(_, _)
Pow(b, n) == IF n = 0 THEN 1 ELSE b * Pow(b, n-1)

Inverse(c, q) == CHOOSE y \in 1..(q-1) : (c * y) % q = 1

IsZero(v, q) == \A i \in 1..Len(v) : v[i] % q = 0

LastNonzero(v) == CHOOSE i \in 1..Len(v) : v[i] # 0 /\ \A j \in (i+1)..Len(v) : v[j] = 0

\* projective_space(v): the coordinates reduced mod q and scaled so that the
\* last nonzero one is 1 (v is not the zero vector of GF(q))
projective_point(v, q) ==
    LET w == [i \in 1..Len(v) |-> v[i] % q]
        c == Inverse(w[LastNonzero(w)], q)
    IN  [i \in 1..Len(v) |-> (w[i] * c) % q]

\* the m-th tuple (m from 0) of GF(q)^n in lexicographic order
Digits(m, n, q) == Tabulate(LAMBDA i : (m \div Pow(q, n-i)) % q, n)

\* the points with k zeros after their last nonzero coordinate
Block(d, q, k) ==
    Tabulate(LAMBDA m : Digits(m-1, d-k, q) \o <<1>> \o Tabulate(LAMBDA i : 0, k),
             Pow(q, d-k))

RECURSIVE Blocks(_, _, _)
Blocks(d, q, k) == IF k > d THEN <<>> ELSE Block(d, q, k) \o Blocks(d, q, k+1)

\* projective_space.rational_points(): the coordinates of every point, in
\* Sage's order of enumeration
rational_points(d, q) == Blocks(d, q, 0)

RECURSIVE BlockStart(_, _, _)
\* the points before the block of k trailing zeros
BlockStart(d, q, k) == IF k = 0 THEN 0 ELSE BlockStart(d, q, k-1) + Pow(q, d-(k-1))

RECURSIVE Number(_, _, _)
\* the number whose digits in base q are v[1..n]
Number(v, n, q) == IF n = 0 THEN 0 ELSE Number(v, n-1, q) * q + v[n]

\* the position in rational_points of the point of normalised coordinates v
PointIndex(v, q) ==
    LET d == Len(v) - 1
        L == LastNonzero(v)
    IN  BlockStart(d, q, d + 1 - L) + Number(v, L-1, q) + 1

(***************************************************************************)
(* Lines, hyperplanes and rank, on coordinates.                            *)
(***************************************************************************)
\* zeta * p_1 + alpha * p_2 over GF(q)
Combine(zeta, alpha, p1, p2, q) ==
    [i \in 1..Len(p1) |-> (zeta * p1[i] + alpha * p2[i]) % q]

RECURSIVE LineFrom(_, _, _, _, _)
\* the loops of points_on_line over zeta (outer) and alpha (inner), from the
\* pair numbered n = zeta * q + alpha on
LineFrom(n, p1, p2, q, line_points) ==
    IF n >= q * q THEN line_points
    ELSE LET zeta  == n \div q
             alpha == n % q
         IN  IF alpha # 0 \/ zeta # 0
             THEN LineFrom(n+1, p1, p2, q,
                      AppendNew(line_points,
                                projective_point(Combine(zeta, alpha, p1, p2, q), q)))
             ELSE LineFrom(n+1, p1, p2, q, line_points)

\* the loop over zeta started one element late
points_from_one(point1, point2, q) == LineFrom(q, point1, point2, q, <<>>)

\* points_on_line on the coordinates of two different points
points_on_line(point1, point2, q) == LineFrom(0, point1, point2, q, <<>>)

RECURSIVE DotFrom(_, _, _)
DotFrom(i, p1, p2) == IF i > Len(p1) THEN 0 ELSE p1[i] * p2[i] + DotFrom(i+1, p1, p2)

\* np.dot of two points, in GF(q)
Dot(p1, p2, q) == DotFrom(1, p1, p2) % q

RECURSIVE RowSpace(_, _, _)
\* the row space of the first n rows
RowSpace(rows, n, q) ==
    IF n = 0 THEN {[i \in 1..Len(rows[1]) |-> 0]}
    ELSE LET S == RowSpace(rows, n-1, q)
         IN  IF rows[n] \in S THEN S
             ELSE {Combine(1, c, s, rows[n], q) : s \in S, c \in 0..(q-1)}

RECURSIVE RankFrom(_, _, _)
\* the rank of the first n rows: the rows outside the span of the rows
\* before them
RankFrom(rows, n, q) ==
    IF n = 0 THEN 0
    ELSE RankFrom(rows, n-1, q) + (IF rows[n] \in RowSpace(rows, n-1, q) THEN 0 ELSE 1)

\* sage.matrix(GF(q), rows).rank()
Rank(rows, q) == RankFrom(rows, Len(rows), q)

(***************************************************************************)
(* The geometry of every space of the model, computed once: the            *)
(* coordinates of its points, the line through every two points and the    *)
(* hyperplane of every pole, as lists of positions.                        *)
(***************************************************************************)
\* the number of points of PG(d, q)
SpaceSize(d, q) == BlockStart(d, q, d+1)

Tabulated(d, q) ==
    /\ d >= 2 /\ d <= MaxDim
    /\ is_prime(q) /\ q <= MaxOrder
    /\ SpaceSize(d, q) <= MaxPoints

Positions(coords, q) == Tabulate(LAMBDA k : PointIndex(coords[k], q), Len(coords))

\* hyperplane_dict: key i is the list of the points orthogonal to points[i]
all_hyperplaines(pts, q) ==
    Tabulate(LAMBDA i :
                 SelectSeq(Tabulate(LAMBDA j : j, Len(pts)),
                           LAMBDA j : Dot(pts[i], pts[j], q) = 0),
             Len(pts))

Space(d, q) ==
    LET pts == rational_points(d, q)
        n   == Len(pts)
    IN  [points |-> pts,
         lines  |-> Tabulate(LAMBDA i :
                        Tabulate(LAMBDA j :
                            IF i = j THEN <<>>
                            ELSE Positions(points_on_line(pts[i], pts[j], q), q), n), n),
         hyperplanes |-> all_hyperplaines(pts, q),
         ranks  |-> Tabulate(LAMBDA i :
                        Tabulate(LAMBDA j :
                            Tabulate(LAMBDA k :
                                Rank(<<pts[i], pts[i+j-1], pts[i+j+k-2]>>, q),
                                n-(i+j-1)+1), n-i+1), n)]

Geometry ==
    Tabulate(LAMBDA d :
                 Tabulate(LAMBDA q : IF Tabulated(d, q) THEN Space(d, q) ELSE <<>>,
                          MaxOrder),
             MaxDim)

\* the coordinates of a point, list(point)
Coords(p, d, q) == Geometry[d][q].points[p]

NumPoints(d, q) == Len(Geometry[d][q].points)

\* a line cut down to the two points it was asked through
line_ends(p1, p2, d, q) == <<p1, p2>>

\* points_on_line on the positions of two different points
LineThrough(p1, p2, d, q) == Geometry[d][q].lines[p1][p2]

point_in_plane(point, plane) == In(point, plane)

line_in_plane(line, plane) == \A i \in 1..Len(line) : point_in_plane(line[i], plane)

\* result[point] for every point of the secret line
find_hyperplanes_for_secret_line(hyperplanes, secret_line) ==
    [point \in Range(secret_line) |->
        SelectSeq(hyperplanes,
                  LAMBDA plane : point_in_plane(point, plane)
                                 /\ ~line_in_plane(secret_line, plane))]

\* sage.matrix(GF(q), three_points).rank(): the rank of a matrix does not
\* depend on the order of its rows, and the table holds it for the rows in
\* the order of their positions
triple_rank(a, b, c, d, q) ==
    LET lo  == Min(a, Min(b, c))
        hi  == Max(a, Max(b, c))
        mid == a + b + c - lo - hi
    IN  Geometry[d][q].ranks[lo][mid-lo+1][hi-mid+1]

\* a check of general position that accepts every arc
any_position(arc, d, q) == TRUE

\* itertools.combinations(arc, 3): every triple has rank 3
is_general_position(arc, d, q) ==
    \A i \in 1..Len(arc) : \A j \in (i+1)..Len(arc) : \A k \in (j+1)..Len(arc) :
        triple_rank(arc[i], arc[j], arc[k], d, q) >= 3

\* find_point_for_secret_line: the points a second point is chosen from
valid_points(secret, d, q) ==
    SelectSeq(Tabulate(LAMBDA j : j, NumPoints(d, q)),
              LAMBDA point :
                  /\ point # secret
                  /\ \E i \in 1..(d+1) : Coords(point, d, q)[i] = Coords(secret, d, q)[i])

\* the positions of a list a random draw of encryption is followed on
DrawIdx(s, npoints) ==
    1..(IF npoints <= FullPoints THEN Len(s) ELSE Min(Len(s), Fan))

\* the positions of the points not yet placed r.shuffle is followed on
ShuffleIdx(s, npoints) ==
    1..(IF npoints <= FullPoints THEN Len(s) ELSE Min(Len(s), ShuffleFan))

(***************************************************************************)
(* The state: the locals of one encryption run, of one decryption run and  *)
(* of one call of points_on_line.                                          *)
(***************************************************************************)
VARIABLES
    pc,                \* where the run is
    dimension, order,  \* the arguments of t_threshold_encrypt
    secret,            \* the secret point
    secret_line,       \* the list of the points of the secret line
    hyperplanes_cut_secret_line, \* point of the line -> list of hyperplanes
    arc,               \* find_largest_general_position_subset: the arc
    todo,              \* ... the points r.shuffle has not placed yet
    attempts,          \* recursive retries of get_secret_splitter
    secret_splitters,  \* the shares encryption returns
    splitted_secrets,  \* decryption: the shares given
    line_given,        \* decryption: the secret line given
    d_dimension, d_order, \* decryption: dimension and order of its space
    hyperplaine,       \* reconstruct_hyperplane: the growing list
    calls,             \* reconstruct_hyperplane: calls made
    outcome,           \* decryption: what was reported
    decrypted,         \* decryption: the set printed as the secret
    point1, point2,    \* points_on_line: the two points
    line_points,       \* ... its result
    line_swapped       \* ... its result on (point2, point1)

encVars == <<dimension, order, secret, secret_line, hyperplanes_cut_secret_line,
             arc, todo, attempts, secret_splitters>>

decVars == <<splitted_secrets, line_given, d_dimension, d_order, hyperplaine,
             calls, outcome, decrypted>>

lineVars == <<point1, point2, line_points, line_swapped>>

vars == <<pc, encVars, decVars, lineVars>>

BlankEncrypt ==
    /\ secret = 0 /\ secret_line = <<>>
    /\ hyperplanes_cut_secret_line = <<>>
    /\ arc = <<>> /\ todo = <<>> /\ attempts = 0
    /\ secret_splitters = <<>>

BlankDecrypt ==
    /\ splitted_secrets = <<>> /\ line_given = <<>>
    /\ d_dimension = 0 /\ d_order = 0
    /\ hyperplaine = <<>> /\ calls = 0 /\ outcome = "none" /\ decrypted = {}

BlankLine ==
    /\ point1 = 0 /\ point2 = 0
    /\ line_points = <<>> /\ line_swapped = <<>>

\* t_threshold_encrypt is called with any dimension and order within the bounds
Init ==
    /\ pc = "encrypt"
    /\ dimension \in 1..MaxDim
    /\ order \in 1..MaxOrder
    /\ order <= 1 \/ dimension <= 1 \/ ~is_prime(order)
          \/ SpaceSize(dimension, order) <= MaxPoints
    /\ BlankEncrypt /\ BlankDecrypt /\ BlankLine

(***************************************************************************)
(* t_threshold_encrypt                                                     *)
(***************************************************************************)
\* lines 190-195: the arguments are refused
EncryptRefuse ==
    /\ pc = "encrypt"
    /\ order <= 1 \/ dimension <= 1 \/ ~is_prime(order)
    /\ pc' = "refused"
    /\ UNCHANGED <<encVars, decVars, lineVars>>

\* lines 197-207: the secret, the secret line and the hyperplanes cutting it
EncryptSetup ==
    /\ pc = "encrypt"
    /\ ~(order <= 1 \/ dimension <= 1)
    /\ is_prime(order)
    /\ LET n == NumPoints(dimension, order)
       IN  \E random_number \in DrawIdx(Geometry[dimension][order].points, n) :
             LET valid == valid_points(random_number, dimension, order)
             IN  \E j \in DrawIdx(valid, n) :
                   LET line == LineThrough(random_number, valid[j], dimension, order)
                   IN  /\ secret' = random_number
                       /\ secret_line' = line
                       /\ hyperplanes_cut_secret_line' =
                              find_hyperplanes_for_secret_line(
                                  Geometry[dimension][order].hyperplanes, line)
    /\ pc' = "split"
    /\ UNCHANGED <<dimension, order, arc, todo, attempts, secret_splitters,
                   decVars, lineVars>>

\* get_secret_splitter, lines 118-127: a hyperplane through the secret is
\* drawn and the secret removed from its list (the list of the dictionary
\* itself); dimension 2 returns it, otherwise the arc search starts
SplitterPick ==
    /\ pc = "split"
    /\ attempts <= MaxAttempts
    /\ \E random_number \in DrawIdx(hyperplanes_cut_secret_line[secret],
                                    NumPoints(dimension, order)) :
         LET hp_for_splitter ==
                 RemoveFirst(hyperplanes_cut_secret_line[secret][random_number], secret)
         IN  /\ hyperplanes_cut_secret_line' =
                    [hyperplanes_cut_secret_line EXCEPT
                         ![secret][random_number] = hp_for_splitter]
             /\ IF dimension = 2
                THEN /\ secret_splitters' = hp_for_splitter
                     /\ pc' = "encrypted"
                     /\ UNCHANGED <<arc, todo>>
                ELSE /\ arc' = <<secret>>
                     /\ todo' = hp_for_splitter
                     /\ pc' = "arc"
                     /\ UNCHANGED secret_splitters
    /\ UNCHANGED <<dimension, order, secret, secret_line, attempts, decVars, lineVars>>

\* a loop body that never appends
arc_skip(a, point, d, q) == a

\* the arc after the loop body of lines 154-156 has run on point
arc_step(a, point, d, q) ==
    IF is_general_position(Append(a, point), d, q) THEN Append(a, point) ELSE a

\* find_largest_general_position_subset, lines 151-156.  r.shuffle is drawn
\* one position at a time: the next point of the shuffled list is any point
\* not placed yet.  The first one (the arc is still [secret]) is appended to
\* the arc (line 152), and the loop body then runs on every point in
\* shuffled order.  The shuffled list itself is read nowhere else (a retry
\* shuffles it again), so its order is not kept.
ArcStep ==
    /\ pc = "arc"
    /\ todo # <<>>
    /\ \E k \in ShuffleIdx(todo, NumPoints(dimension, order)) :
         LET point == todo[k]
             arc1  == IF arc = <<secret>> THEN Append(arc, point) ELSE arc
         IN  /\ arc' = arc_step(arc1, point, dimension, order)
             /\ todo' = DropAt(todo, k)
    /\ UNCHANGED <<pc, dimension, order, secret, secret_line,
                   hyperplanes_cut_secret_line, attempts, secret_splitters,
                   decVars, lineVars>>

\* sage.matrix(GF(order), subset).rank()
subset_rank(subset, d, q) ==
    Rank(Tabulate(LAMBDA i : Coords(subset[i], d, q), Len(subset)), q)

\* lines 157-158 and 128-137: the secret leaves the arc; the arc is returned
\* when its rank reaches the dimension, otherwise get_secret_splitter calls
\* itself
ArcReturn ==
    /\ pc = "arc"
    /\ todo = <<>>
    /\ LET subset == RemoveFirst(arc, secret)
       IN  /\ arc' = subset
           /\ IF subset_rank(subset, dimension, order) >= dimension
              THEN /\ secret_splitters' = subset
                   /\ pc' = "encrypted"
                   /\ UNCHANGED attempts
              ELSE /\ attempts' = attempts + 1
                   /\ pc' = "split"
                   /\ UNCHANGED secret_splitters
    /\ UNCHANGED <<dimension, order, secret, secret_line,
                   hyperplanes_cut_secret_line, todo, decVars, lineVars>>

(***************************************************************************)
(* From encryption to decryption: the caller hands shares and the secret   *)
(* line over.                                                              *)
(***************************************************************************)
RECURSIVE Pick(_, _, _)
\* the sub-list of s at the positions S, from position i on
Pick(s, S, i) ==
    IF i > Len(s) THEN <<>>
    ELSE (IF i \in S THEN <<s[i]>> ELSE <<>>) \o Pick(s, S, i+1)

SubLists(s) == {Pick(s, S, 1) : S \in SUBSET (1..Len(s))}

\* [list(point) for point in ...]: the coordinates of the points of a list
CoordList(s, d, q) == Tabulate(LAMBDA i : Coords(s[i], d, q), Len(s))

\* lines 210-215 of encryption and 126-130 of decryption: coordinates are
\* printed and read back as integers.  The shares handed over are any
\* sub-list of the splitters, or all of them with one more point of the space.
Distribute ==
    /\ pc = "encrypted"
    /\ \E shares \in SubLists(secret_splitters)
                     \cup {Append(secret_splitters, p) :
                              p \in DrawIdx(Geometry[dimension][order].points,
                                            NumPoints(dimension, order))} :
         splitted_secrets' = CoordList(shares, dimension, order)
    /\ line_given' = CoordList(secret_line, dimension, order)
    /\ pc' = "decrypt"
    /\ UNCHANGED <<encVars, d_dimension, d_order, hyperplaine, calls, outcome,
                   decrypted, lineVars>>

(***************************************************************************)
(* t_threshold_decrypt                                                     *)
(***************************************************************************)
\* the outcomes that report no secret
IsError(o) == o \in {"too_small", "too_few", "not_prime", "crash"}

\* the checks of the arguments without the one of the number of shares
\* against the dimension
check_without_count(shares, line) ==
    LET ord       == Len(line) - 1
        dim       == Len(line[1]) - 1
        n_secrets == Len(shares)
    IN  IF ord <= 1 \/ dim <= 1 \/ n_secrets <= 1 THEN "too_small"
        ELSE IF ~is_prime(ord) THEN "not_prime"
        ELSE "ok"

\* lines 47-57: the message the checks of the arguments end in, or "ok"
decrypt_check(shares, line) ==
    LET ord       == Len(line) - 1
        dim       == Len(line[1]) - 1
        n_secrets == Len(shares)
    IN  IF ord <= 1 \/ dim <= 1 \/ n_secrets <= 1 THEN "too_small"
        ELSE IF n_secrets < dim THEN "too_few"
        ELSE IF ~is_prime(ord) THEN "not_prime"
        ELSE "ok"

\* [projective_space(point) for point in ...]
to_points(s, q) == Tabulate(LAMBDA i : PointIndex(projective_point(s[i], q), q), Len(s))

\* lines 47-63: the checks of the arguments, then the conversion of every
\* point into the projective space.  An empty secret line has no first
\* point and the zero vector is no point: both raise.
Decrypt ==
    /\ pc = "decrypt"
    /\ IF line_given = <<>>
       THEN /\ outcome' = "crash" /\ pc' = "done"
            /\ UNCHANGED <<splitted_secrets, line_given, d_dimension, d_order, hyperplaine>>
       ELSE LET ord == Len(line_given) - 1
                dim == Len(line_given[1]) - 1
                msg == decrypt_check(splitted_secrets, line_given)
            IN  IF msg # "ok"
                THEN /\ outcome' = msg /\ pc' = "done"
                     /\ UNCHANGED <<splitted_secrets, line_given, d_dimension,
                                    d_order, hyperplaine>>
                ELSE IF \/ \E i \in 1..Len(splitted_secrets) : IsZero(splitted_secrets[i], ord)
                        \/ \E i \in 1..Len(line_given) : IsZero(line_given[i], ord)
                THEN /\ outcome' = "crash" /\ pc' = "done"
                     /\ UNCHANGED <<splitted_secrets, line_given, d_dimension,
                                    d_order, hyperplaine>>
                ELSE /\ d_order' = ord
                     /\ d_dimension' = dim
                     /\ splitted_secrets' = to_points(splitted_secrets, ord)
                     /\ line_given' = to_points(line_given, ord)
                     /\ hyperplaine' = splitted_secrets'
                     /\ outcome' = outcome
                     /\ pc' = "reconstruct"
    /\ UNCHANGED <<encVars, calls, decrypted, lineVars>>

RECURSIVE Extend(_, _, _)
\* lines 84-86: the points of new_points from the k-th on are appended to
\* the list unless it has them
Extend(h, new_points, k) ==
    IF k > Len(new_points) THEN h
    ELSE Extend(AppendNew(h, new_points[k]), new_points, k+1)

RECURSIVE Inner(_, _, _, _, _)
\* lines 81-86: the loop over point2, at position j of the growing list
Inner(h, i, j, d, q) ==
    IF j > Len(h) THEN h
    ELSE Inner(IF h[i] # h[j] THEN Extend(h, LineThrough(h[i], h[j], d, q), 1) ELSE h,
               i, j+1, d, q)

\* an outer loop that stops after its first point1
outer_once(h, i, d, q) == Inner(h, i, 1, d, q)

RECURSIVE Outer(_, _, _, _)
\* lines 80-86: the loop over point1, at position i of the growing list
Outer(h, i, d, q) ==
    IF i > Len(h) THEN h
    ELSE Outer(Inner(h, i, 1, d, q), i+1, d, q)

\* a call whose loops add nothing
closure_none(h, d, q) == h

\* one call of reconstruct_hyperplane up to its comparison: the list after
\* the two loops have run over it while it grows
closure_pass(h, d, q) == Outer(h, 1, d, q)

\* reconstruct_hyperplane, lines 77-90: one call.  It returns when the loops
\* added nothing and calls itself on the grown list otherwise.
Reconstruct ==
    /\ pc = "reconstruct"
    /\ LET grown == closure_pass(hyperplaine, d_dimension, d_order)
       IN  /\ hyperplaine' = grown
           /\ pc' = IF grown = hyperplaine THEN "reconstructed" ELSE "reconstruct"
    /\ calls' = calls + 1
    /\ UNCHANGED <<encVars, splitted_secrets, line_given, d_dimension, d_order,
                   outcome, decrypted, lineVars>>

\* an intersection that stops at the first point it finds
intersect_first(hyperplane_intersect_secret, line) ==
    LET found == SelectSeq(hyperplane_intersect_secret, LAMBDA point : In(point, line))
    IN  IF found = <<>> THEN {} ELSE {found[1]}

\* intersect_hyperplane_w_secret_line: the points of the closure that are
\* in the set of the points of the secret line
intersect_hyperplane_w_secret_line(hyperplane_intersect_secret, line) ==
    {point \in Range(hyperplane_intersect_secret) : point \in Range(line)}

\* lines 68-70: the intersection is printed as the decrypted secret
Intersect ==
    /\ pc = "reconstructed"
    /\ decrypted' = intersect_hyperplane_w_secret_line(hyperplaine, line_given)
    /\ outcome' = "secret"
    /\ pc' = "done"
    /\ UNCHANGED <<encVars, splitted_secrets, line_given, d_dimension, d_order,
                   hyperplaine, calls, lineVars>>

Next ==
    \/ EncryptRefuse \/ EncryptSetup \/ SplitterPick \/ ArcStep \/ ArcReturn
    \/ Distribute \/ Decrypt \/ Reconstruct \/ Intersect

Spec == Init /\ [][Next]_vars


(***************************************************************************)
(* points_on_line on its own: one call on two different points of a space, *)
(* and the call with the two points exchanged.                             *)
(***************************************************************************)
InitLine ==
    /\ pc = "line"
    /\ dimension \in 2..MaxDim
    /\ order \in 2..MaxOrder
    /\ Tabulated(dimension, order)
    /\ point1 \in 1..NumPoints(dimension, order)
    /\ point2 \in 1..NumPoints(dimension, order)
    /\ point1 # point2
    /\ line_points = <<>> /\ line_swapped = <<>>
    /\ BlankEncrypt /\ BlankDecrypt

LineCall ==
    /\ pc = "line"
    /\ line_points' = points_on_line(Coords(point1, dimension, order),
                                     Coords(point2, dimension, order), order)
    /\ line_swapped' = points_on_line(Coords(point2, dimension, order),
                                      Coords(point1, dimension, order), order)
    /\ pc' = "line_done"
    /\ UNCHANGED <<encVars, decVars, point1, point2>>

NextLine == LineCall

SpecLine == InitLine /\ [][NextLine]_vars

(***************************************************************************)
(* reconstruct_hyperplane on its own: called on any list of at most        *)
(* MaxList points (repetitions allowed) of a space of at most              *)
(* ClosurePoints points.                                                   *)
(***************************************************************************)
\* the lists of at most n elements of S
Lists(S, n) == UNION {[1..k -> S] : k \in 0..n}

InitClosure ==
    /\ pc = "reconstruct"
    /\ d_dimension \in 2..MaxDim
    /\ d_order \in 2..MaxOrder
    /\ Tabulated(d_dimension, d_order)
    /\ NumPoints(d_dimension, d_order) <= ClosurePoints
    /\ splitted_secrets \in Lists(1..NumPoints(d_dimension, d_order), MaxList)
    /\ hyperplaine = splitted_secrets
    /\ line_given = <<>> /\ calls = 0 /\ outcome = "none" /\ decrypted = {}
    /\ dimension = 0 /\ order = 0
    /\ BlankEncrypt /\ BlankLine

NextClosure == Reconstruct

SpecClosure == InitClosure /\ [][NextClosure]_vars

(***************************************************************************)
(* t_threshold_decrypt on its own: called on any list of at most MaxGiven  *)
(* points of a space (as coordinates) and on a secret line that is the     *)
(* first k entries of the points of a line listed twice, so that the list  *)
(* may be too short, a line, or too long.                                  *)
(***************************************************************************)
InitDecrypt ==
    /\ pc = "decrypt"
    /\ \E d \in 1..MaxDim, q \in 2..MaxOrder :
         /\ is_prime(q)
         /\ d = 1 \/ (Tabulated(d, q) /\ SpaceSize(d, q) <= ClosurePoints)
         /\ LET pts == rational_points(d, q)
            IN  /\ splitted_secrets \in Lists(Range(pts), MaxGiven)
                /\ \E a \in 1..Min(LineFan, Len(pts)), b \in 1..Min(LineFan, Len(pts)),
                      k \in 0..(q+2) :
                     /\ a # b
                     /\ LET line == points_on_line(pts[a], pts[b], q)
                        IN  line_given = SubSeq(line \o line, 1, k)
    /\ d_dimension = 0 /\ d_order = 0
    /\ hyperplaine = <<>> /\ calls = 0 /\ outcome = "none" /\ decrypted = {}
    /\ dimension = 0 /\ order = 0
    /\ BlankEncrypt /\ BlankLine

NextDecrypt == Decrypt \/ Reconstruct \/ Intersect

SpecDecrypt == InitDecrypt /\ [][NextDecrypt]_vars

(***************************************************************************)
(* The properties.                                                         *)
(***************************************************************************)
\* the shares decryption was given, as points: decryption holds them as
\* points once it has converted them, and as coordinates when it stopped
\* before
GivenShares ==
    IF outcome = "secret" THEN splitted_secrets
    ELSE Positions(splitted_secrets, order)

\* the shares decryption was given are all the splitters of the encryption
FullShares == GivenShares = secret_splitters

\* no three different points of S are on one line
NoThreeCollinear(S, d, q) ==
    \A a \in S : \A b \in S \ {a} : \A c \in S \ {a, b} :
        ~In(c, LineThrough(a, b, d, q))

\* some hyperplane of the space has every point of the list s
OnCommonHyperplane(s, d, q) ==
    \E i \in 1..NumPoints(d, q) :
        \A j \in 1..Len(s) : In(s[j], Geometry[d][q].hyperplanes[i])

\* C1: round trip.  Whatever encryption drew, decryption of all the
\* splitters and the secret line ends with the intersection {secret}.
C1_RoundTrip ==
    (pc = "done" /\ FullShares) => (outcome = "secret" /\ decrypted = {secret})

C1_Witness ==
    /\ pc = "done" /\ FullShares
    /\ dimension = MaxDim /\ decrypted = {secret}

\* C2: threshold.  Decryption of any shares taken from the splitters, at
\* least `dimension` of them, ends with the intersection {secret}.
C2_Threshold ==
    (/\ pc = "done"
     /\ Len(splitted_secrets) >= dimension
     /\ Range(GivenShares) \subseteq Range(secret_splitters))
        => (outcome = "secret" /\ decrypted = {secret})

C5_SinglePointOrError ==
    (pc = "done" /\ outcome = "secret") => Cardinality(decrypted) = 1

\* C7: shares, at least `dimension` of them, that no hyperplane has all of
\* never decrypt to a single point.
C7_NoSilentPoint ==
    (/\ pc = "done" /\ outcome = "secret"
     /\ Len(splitted_secrets) >= d_dimension
     /\ ~OnCommonHyperplane(splitted_secrets, d_dimension, d_order))
        => Cardinality(decrypted) # 1

C7_Witness ==
    /\ pc = "done" /\ outcome = "secret"
    /\ Len(splitted_secrets) >= d_dimension
    /\ ~OnCommonHyperplane(splitted_secrets, d_dimension, d_order)
    /\ Cardinality(decrypted) = order + 1

\* C10: get_secret_splitter never takes its retry branch, in any dimension,
\* and the splitters it returns have rank at least `dimension`.
C10_NoRetry ==
    /\ attempts = 0
    /\ pc = "encrypted" =>
           subset_rank(secret_splitters, dimension, order) >= dimension

C10_Witness ==
    /\ pc = "encrypted" /\ dimension >= 3 /\ attempts = 0
    /\ subset_rank(secret_splitters, dimension, order) = dimension

\* C4: the list points_on_line returns on two different points has exactly
\* order + 1 entries, all different, the two points among them, and the
\* same points as the list it returns on the two points exchanged.
C4_Line ==
    pc = "line_done" =>
        /\ Len(line_points) = order + 1
        /\ Cardinality(Range(line_points)) = order + 1
        /\ Coords(point1, dimension, order) \in Range(line_points)
        /\ Coords(point2, dimension, order) \in Range(line_points)
        /\ Range(line_points) = Range(line_swapped)

C4_Witness ==
    /\ pc = "line_done" /\ order >= 3 /\ dimension >= 3
    /\ line_points # line_swapped
    /\ Range(line_points) = Range(line_swapped)

\* the dimension decryption takes from the first point of the secret line
\* (a list of coordinates until decryption has converted it)
GivenDimension ==
    IF d_dimension # 0 THEN d_dimension ELSE Len(line_given[1]) - 1

\* C6: decryption called with fewer shares than the dimension (taken from
\* the first point of the secret line) computes no closure, prints no
\* secret and ends in an error.
C6_TooFewShares ==
    (/\ line_given # <<>>
     /\ Len(splitted_secrets) < GivenDimension)
        => /\ pc \in {"decrypt", "done"}
           /\ calls = 0 /\ hyperplaine = <<>> /\ decrypted = {}
           /\ pc = "done" => IsError(outcome)

C6_Witness ==
    /\ pc = "done" /\ outcome = "too_few"
    /\ Len(splitted_secrets) = 2 /\ GivenDimension > 2
    /\ calls = 0

\* the list h has every point of the line through any two different points
\* of it
LineClosed(h, d, q) ==
    \A a \in Range(h) : \A b \in Range(h) \ {a} :
        Range(LineThrough(a, b, d, q)) \subseteq Range(h)

\* C8: reconstruct_hyperplane returns on every list: every call but the
\* last one makes the list longer, and the list never has more entries than
\* the entries given and the points of the space.  What it returns has
\* every point it was given, is closed under the lines through its points,
\* and is returned unchanged by one more call.
C8_Closure ==
    /\ calls <= Len(hyperplaine) - Len(splitted_secrets) + 1
    /\ Len(hyperplaine) <= Len(splitted_secrets) + NumPoints(d_dimension, d_order)
    /\ pc = "reconstructed" =>
           /\ Range(splitted_secrets) \subseteq Range(hyperplaine)
           /\ LineClosed(hyperplaine, d_dimension, d_order)
           /\ Range(closure_pass(hyperplaine, d_dimension, d_order))
                  = Range(hyperplaine)

C8_Witness ==
    /\ pc = "reconstructed" /\ calls >= 2
    /\ Len(hyperplaine) > Len(splitted_secrets) + 2
    /\ LineClosed(hyperplaine, d_dimension, d_order)

\* the points returned are exactly the points of every hyperplane that has
\* all the points given
RecoversHyperplane ==
    \A i \in 1..NumPoints(d_dimension, d_order) :
        LET H == Geometry[d_dimension][d_order].hyperplanes[i]
        IN  Range(splitted_secrets) \subseteq Range(H)
                => Range(hyperplaine) = Range(H)

\* C9 as claimed: on at least `dimension` points of one hyperplane H,
\* reconstruct_hyperplane returns exactly the points of H.
C9_AnyPointsOfH ==
    (pc = "reconstructed" /\ Len(splitted_secrets) >= d_dimension)
        => RecoversHyperplane

\* C9 as amended: on points of one hyperplane H that span it (their rank is
\* the dimension), reconstruct_hyperplane returns exactly the points of H.
C9_SpanningPointsOfH ==
    (/\ pc = "reconstructed"
     /\ Len(splitted_secrets) >= d_dimension
     /\ subset_rank(splitted_secrets, d_dimension, d_order) = d_dimension)
        => RecoversHyperplane

C9_Witness ==
    /\ pc = "reconstructed" /\ d_dimension >= 3
    /\ Len(splitted_secrets) >= d_dimension
    /\ subset_rank(splitted_secrets, d_dimension, d_order) = d_dimension
    /\ OnCommonHyperplane(splitted_secrets, d_dimension, d_order)
    /\ RecoversHyperplane
=============================================================================
